---- MODULE Spec2Model ----
(***************************************************************************)
(* Direct-message subsystem of streamline-task-management:                 *)
(*   src/server/routes/directMessages.js  (key provider, codec, routes)    *)
(*                                                                         *)
(* Strings are sequences of UTF-16 code units (naturals), byte buffers are *)
(* sequences of 0..255.  The library primitives the code calls are         *)
(* modelled by what they do to those values:                               *)
(*   - string <-> Buffer conversion is real UTF-8 (lossy on unpaired       *)
(*     surrogates, as Node's is);                                          *)
(*   - hex encoding / Buffer.from(s,'hex') are the real conversions;       *)
(*   - gzip is the real container (10-byte header, one stored deflate      *)
(*     block, checksum and size trailer) with a small checksum in place of *)
(*     CRC-32;                                                             *)
(*   - aes-256-cbc is real CBC chaining and PKCS#7 padding around a keyed  *)
(*     byte permutation that stands for the AES block function.            *)
(***************************************************************************)
EXTENDS Integers, Sequences, FiniteSets, TLC

(***************************************************************************)
(* Bounds of the model.                                                    *)
(***************************************************************************)
MaxLen == 2          \* longest plaintext (code units) drawn in CodecSpec
MaxSends == 3        \* messages created by the send route in one behaviour of Spec
MaxThread == 2       \* ... and in one behaviour of SendSpec

(***************************************************************************)
(* Program constants.                                                      *)
(***************************************************************************)
IV_LENGTH == 16      \* const IV_LENGTH = 16
KEY_LENGTH == 32     \* ENCRYPTION_KEY.length !== 32
COLON == 58          \* ':' of the wire format
REPLACEMENT == 65533 \* U+FFFD, what UTF-8 conversion puts for ill-formed input

None == <<>>
Some(x) == <<x>>

(***************************************************************************)
(* Byte helpers.                                                           *)
(***************************************************************************)
RECURSIVE XorBits(_, _)
XorBits(a, b) ==
    IF a = 0 THEN b
    ELSE IF b = 0 THEN a
    ELSE (((a % 2) + (b % 2)) % 2) + 2 * XorBits(a \div 2, b \div 2)

\* a ^ b for bytes, tabulated once
XorTable == [a \in 0..255 |-> [b \in 0..255 |-> XorBits(a, b)]]
Xor(a, b) == XorTable[a][b]

XorBytes(x, y) == [i \in 1..Len(x) |-> Xor(x[i], y[i])]

RECURSIVE Repeat(_, _)
Repeat(v, n) == IF n = 0 THEN <<>> ELSE <<v>> \o Repeat(v, n - 1)

Slice(s, from, to) == SubSeq(s, from, to)

(***************************************************************************)
(* String -> Buffer (zlib.gzipSync(text) converts its string argument as   *)
(* UTF-8) and Buffer -> string (decompressed.toString()).                  *)
(***************************************************************************)
IsHighSurrogate(cu) == cu >= 55296 /\ cu <= 56319
IsLowSurrogate(cu) == cu >= 56320 /\ cu <= 57343
IsWellFormed(s) ==
    \A i \in 1..Len(s) :
        /\ IsHighSurrogate(s[i]) => (i < Len(s) /\ IsLowSurrogate(s[i + 1]))
        /\ IsLowSurrogate(s[i]) => (i > 1 /\ IsHighSurrogate(s[i - 1]))

Utf8OfCodePoint(cp) ==
    IF cp < 128 THEN <<cp>>
    ELSE IF cp < 2048 THEN <<192 + (cp \div 64), 128 + (cp % 64)>>
    ELSE IF cp < 65536
        THEN <<224 + (cp \div 4096), 128 + ((cp \div 64) % 64), 128 + (cp % 64)>>
    ELSE <<240 + (cp \div 262144), 128 + ((cp \div 4096) % 64),
           128 + ((cp \div 64) % 64), 128 + (cp % 64)>>

RECURSIVE Utf8EncodeFrom(_, _)
Utf8EncodeFrom(s, i) ==
    IF i > Len(s) THEN <<>>
    ELSE IF IsHighSurrogate(s[i]) /\ i < Len(s) /\ IsLowSurrogate(s[i + 1])
        THEN Utf8OfCodePoint(65536 + (s[i] - 55296) * 1024 + (s[i + 1] - 56320))
                 \o Utf8EncodeFrom(s, i + 2)
    ELSE IF IsHighSurrogate(s[i]) \/ IsLowSurrogate(s[i])
        THEN Utf8OfCodePoint(REPLACEMENT) \o Utf8EncodeFrom(s, i + 1)
    ELSE Utf8OfCodePoint(s[i]) \o Utf8EncodeFrom(s, i + 1)

Utf8Encode(s) == Utf8EncodeFrom(s, 1)

IsCont(b, i) == i <= Len(b) /\ b[i] >= 128 /\ b[i] <= 191
\* the second byte of a 3- or 4-byte sequence is further restricted by the lead
Second3Ok(b, i) ==
    /\ IsCont(b, i + 1)
    /\ (b[i] = 224 => b[i + 1] >= 160)
    /\ (b[i] = 237 => b[i + 1] <= 159)
Second4Ok(b, i) ==
    /\ IsCont(b, i + 1)
    /\ (b[i] = 240 => b[i + 1] >= 144)
    /\ (b[i] = 244 => b[i + 1] <= 143)

CodeUnitsOf(cp) ==
    IF cp < 65536 THEN <<cp>>
    ELSE <<55296 + ((cp - 65536) \div 1024), 56320 + ((cp - 65536) % 1024)>>

RECURSIVE Utf8DecodeFrom(_, _)
Utf8DecodeFrom(b, i) ==
    IF i > Len(b) THEN <<>>
    ELSE IF b[i] < 128 THEN <<b[i]>> \o Utf8DecodeFrom(b, i + 1)
    ELSE IF b[i] >= 194 /\ b[i] <= 223
        THEN IF IsCont(b, i + 1)
             THEN <<(b[i] - 192) * 64 + (b[i + 1] - 128)>> \o Utf8DecodeFrom(b, i + 2)
             ELSE <<REPLACEMENT>> \o Utf8DecodeFrom(b, i + 1)
    ELSE IF b[i] >= 224 /\ b[i] <= 239
        THEN IF ~Second3Ok(b, i) THEN <<REPLACEMENT>> \o Utf8DecodeFrom(b, i + 1)
             ELSE IF ~IsCont(b, i + 2) THEN <<REPLACEMENT>> \o Utf8DecodeFrom(b, i + 2)
             ELSE <<(b[i] - 224) * 4096 + (b[i + 1] - 128) * 64 + (b[i + 2] - 128)>>
                      \o Utf8DecodeFrom(b, i + 3)
    ELSE IF b[i] >= 240 /\ b[i] <= 244
        THEN IF ~Second4Ok(b, i) THEN <<REPLACEMENT>> \o Utf8DecodeFrom(b, i + 1)
             ELSE IF ~IsCont(b, i + 2) THEN <<REPLACEMENT>> \o Utf8DecodeFrom(b, i + 2)
             ELSE IF ~IsCont(b, i + 3) THEN <<REPLACEMENT>> \o Utf8DecodeFrom(b, i + 3)
             ELSE CodeUnitsOf((b[i] - 240) * 262144 + (b[i + 1] - 128) * 4096
                              + (b[i + 2] - 128) * 64 + (b[i + 3] - 128))
                      \o Utf8DecodeFrom(b, i + 4)
    ELSE <<REPLACEMENT>> \o Utf8DecodeFrom(b, i + 1)

Utf8Decode(b) == Utf8DecodeFrom(b, 1)

(***************************************************************************)
(* Hex: buf.toString('hex') and Buffer.from(str, 'hex').  The parser takes *)
(* two digits per byte and stops at the first pair that is not hex.        *)
(***************************************************************************)
HexDigit(n) == IF n < 10 THEN 48 + n ELSE 87 + n

HexValue(cu) ==
    IF cu >= 48 /\ cu <= 57 THEN cu - 48
    ELSE IF cu >= 97 /\ cu <= 102 THEN cu - 87
    ELSE IF cu >= 65 /\ cu <= 70 THEN cu - 55
    ELSE -1

ToHex(buf) ==
    [i \in 1..(2 * Len(buf)) |->
        IF i % 2 = 1 THEN HexDigit(buf[(i + 1) \div 2] \div 16)
        ELSE HexDigit(buf[i \div 2] % 16)]

FromHex(str) ==
    LET pairs == Len(str) \div 2
        bad == {k \in 1..pairs : HexValue(str[2 * k - 1]) < 0 \/ HexValue(str[2 * k]) < 0}
        n == IF bad = {} THEN pairs ELSE (CHOOSE k \in bad : \A j \in bad : k <= j) - 1
    IN  [k \in 1..n |-> HexValue(str[2 * k - 1]) * 16 + HexValue(str[2 * k])]

\* encryptedText.split(':')
Split(str) ==
    LET at == {i \in 1..Len(str) : str[i] = COLON}
        n == Cardinality(at)
        nth(k) == CHOOSE p \in at : Cardinality({q \in at : q < p}) = k - 1
        first(k) == IF k = 1 THEN 1 ELSE nth(k - 1) + 1
        last(k) == IF k = n + 1 THEN Len(str) ELSE nth(k) - 1
    IN  [k \in 1..(n + 1) |-> SubSeq(str, first(k), last(k))]

(***************************************************************************)
(* zlib.gzipSync / zlib.gunzipSync.  A failed gunzip is None.              *)
(***************************************************************************)
GzipHeader == <<31, 139, 8, 0, 0, 0, 0, 0, 0, 3>>

RECURSIVE ByteSum(_)
ByteSum(buf) == IF Len(buf) = 0 THEN 0 ELSE Head(buf) + ByteSum(Tail(buf))

RECURSIVE WeightedSum(_, _)
WeightedSum(buf, w) ==
    IF Len(buf) = 0 THEN 0 ELSE w * Head(buf) + WeightedSum(Tail(buf), w + 1)

\* stands for CRC-32: four bytes that depend on every byte and its position
Checksum(buf) ==
    <<(1 + ByteSum(buf)) % 256, ((1 + ByteSum(buf)) \div 256) % 256,
      (WeightedSum(buf, 1)) % 256, (WeightedSum(buf, 1) \div 256) % 256>>

LE16(n) == <<n % 256, (n \div 256) % 256>>
LE32(n) == <<n % 256, (n \div 256) % 256, (n \div 65536) % 256, (n \div 16777216) % 256>>

gzipSync(buf) ==
    GzipHeader
      \o <<1>> \o LE16(Len(buf)) \o LE16(65535 - Len(buf))
      \o buf
      \o Checksum(buf) \o LE32(Len(buf))

gunzipSync(buf) ==
    IF Len(buf) < 23 THEN None
    ELSE IF Slice(buf, 1, 3) # Slice(GzipHeader, 1, 3) THEN None
    ELSE IF buf[11] # 1 THEN None
    ELSE LET n == buf[12] + 256 * buf[13]
         IN  IF LE16(65535 - n) # <<buf[14], buf[15]>> THEN None
             ELSE IF Len(buf) # 23 + n THEN None
             ELSE LET data == Slice(buf, 16, 15 + n)
                  IN  IF Slice(buf, 16 + n, 19 + n) # Checksum(data) THEN None
                      ELSE IF Slice(buf, 20 + n, 23 + n) # LE32(n) THEN None
                      ELSE Some(data)

(***************************************************************************)
(* crypto.createCipheriv('aes-256-cbc', key, iv) / createDecipheriv.       *)
(* Both refuse a key that is not 32 bytes or an IV that is not 16 bytes;   *)
(* decipher.final() refuses a ciphertext that is empty or not a whole      *)
(* number of blocks, and bad padding.  A refusal is None.                  *)
(***************************************************************************)
BlockEncrypt(key, blk) ==
    [i \in 1..IV_LENGTH |->
        (Xor(blk[(i % IV_LENGTH) + 1], key[i]) + key[i + IV_LENGTH]) % 256]

BlockDecrypt(key, blk) ==
    [i \in 1..IV_LENGTH |->
        LET j == ((i + IV_LENGTH - 2) % IV_LENGTH) + 1
        IN  Xor((blk[j] + 256 - key[j + IV_LENGTH]) % 256, key[j])]

Pkcs7Pad(buf) ==
    LET n == IV_LENGTH - (Len(buf) % IV_LENGTH) IN buf \o Repeat(n, n)

Pkcs7Unpad(buf) ==
    LET n == buf[Len(buf)]
    IN  IF n < 1 \/ n > IV_LENGTH THEN None
        ELSE IF \E i \in (Len(buf) - n + 1)..Len(buf) : buf[i] # n THEN None
        ELSE Some(SubSeq(buf, 1, Len(buf) - n))

RECURSIVE CbcEncryptBlocks(_, _, _)
CbcEncryptBlocks(key, prev, buf) ==
    IF Len(buf) = 0 THEN <<>>
    ELSE LET c == BlockEncrypt(key, XorBytes(Slice(buf, 1, IV_LENGTH), prev))
         IN  c \o CbcEncryptBlocks(key, c, Slice(buf, IV_LENGTH + 1, Len(buf)))

RECURSIVE CbcDecryptBlocks(_, _, _)
CbcDecryptBlocks(key, prev, buf) ==
    IF Len(buf) = 0 THEN <<>>
    ELSE LET c == Slice(buf, 1, IV_LENGTH)
         IN  XorBytes(BlockDecrypt(key, c), prev)
                 \o CbcDecryptBlocks(key, c, Slice(buf, IV_LENGTH + 1, Len(buf)))

CipherParamsOk(key, iv) == Len(key) = KEY_LENGTH /\ Len(iv) = IV_LENGTH

Cipher(key, iv, buf) ==
    IF ~CipherParamsOk(key, iv) THEN None
    ELSE Some(CbcEncryptBlocks(key, iv, Pkcs7Pad(buf)))

Decipher(key, iv, buf) ==
    IF ~CipherParamsOk(key, iv) THEN None
    ELSE IF Len(buf) = 0 \/ Len(buf) % IV_LENGTH # 0 THEN None
    ELSE Pkcs7Unpad(CbcDecryptBlocks(key, iv, buf))

(***************************************************************************)
(* State.                                                                  *)
(***************************************************************************)
VARIABLES
    envKey,            \* process.env.MESSAGE_ENCRYPTION_KEY ("" when unset)
    ENCRYPTION_KEY,    \* let ENCRYPTION_KEY = null   (None, or Some(buffer))
    keyWarningShown,   \* let keyWarningShown = false
    warnings,          \* console.warn calls of the insecure-default warning
    users,             \* ids in the User collection
    messages,          \* the Message collection
    submitted,         \* history: message id -> the text it was sent with, and the key
    clock,             \* Date.now() of the latest save
    sends,             \* messages created so far (also the last id handed out)
    resp,              \* the response to the latest request
    codec,             \* the codec driven on its own (CodecSpec)
    request,           \* the DELETE request the router is answering
    listing,           \* GET /conversations in flight between its awaits (RaceSpec)
    client             \* MessagesPage of the signed-in user and its traffic (ClientSpec)

vars == <<envKey, ENCRYPTION_KEY, keyWarningShown, warnings, users, messages,
          submitted, clock, sends, resp, codec, request, listing, client>>

keyVars == <<envKey, ENCRYPTION_KEY, keyWarningShown, warnings>>
storeVars == <<users, messages, submitted, clock, sends>>
routeVars == <<request, listing, client>>

(***************************************************************************)
(* Key provider.                                                           *)
(***************************************************************************)
\* '0123456789abcdef' four times, the literal of the development key
DefaultKeyHex ==
    LET d == <<48, 49, 50, 51, 52, 53, 54, 55, 56, 57, 97, 98, 99, 100, 101, 102>>
    IN  d \o d \o d \o d

\* mutant: a configured key of the wrong length is replaced by the development key
getEncryptionKeyFallback(env, mem, shown) ==
    IF mem # None
        THEN [threw |-> FALSE, key |-> mem[1], mem |-> mem, shown |-> shown,
              warned |-> FALSE]
    ELSE IF env # <<>> /\ Len(FromHex(env)) = KEY_LENGTH
        THEN [threw |-> FALSE, key |-> FromHex(env), mem |-> Some(FromHex(env)),
              shown |-> shown, warned |-> FALSE]
    ELSE [threw |-> FALSE, key |-> FromHex(DefaultKeyHex),
          mem |-> Some(FromHex(DefaultKeyHex)), shown |-> TRUE, warned |-> ~shown]

\* mutant: the warning is written by every call that has no configured key
getEncryptionKeyWarnEachCall(env, mem, shown) ==
    IF mem # None
        THEN [threw |-> FALSE, key |-> mem[1], mem |-> mem, shown |-> shown,
              warned |-> env = <<>>]
    ELSE IF env # <<>>
        THEN LET k == FromHex(env)
             IN  [threw |-> Len(k) # KEY_LENGTH, key |-> k, mem |-> Some(k),
                  shown |-> shown, warned |-> FALSE]
    ELSE [threw |-> FALSE, key |-> FromHex(DefaultKeyHex),
          mem |-> Some(FromHex(DefaultKeyHex)), shown |-> TRUE, warned |-> TRUE]

\* The outcome of one call: threw, the key returned, and the module state it leaves.
getEncryptionKey(env, mem, shown) ==
    IF mem # None
        THEN [threw |-> FALSE, key |-> mem[1], mem |-> mem, shown |-> shown,
              warned |-> FALSE]
    ELSE IF env # <<>>
        THEN LET k == FromHex(env)
             IN  [threw |-> Len(k) # KEY_LENGTH, key |-> k, mem |-> Some(k),
                  shown |-> shown, warned |-> FALSE]
    ELSE [threw |-> FALSE, key |-> FromHex(DefaultKeyHex),
          mem |-> Some(FromHex(DefaultKeyHex)), shown |-> TRUE, warned |-> ~shown]

(***************************************************************************)
(* Codec.  Every failure inside the try block leaves as the one error of   *)
(* the catch block; cause is what the catch block logs.                    *)
(***************************************************************************)
\* mutant: the separator is forgotten
WireStringNoSeparator(iv, encrypted) == ToHex(iv) \o ToHex(encrypted)

WireString(iv, encrypted) == ToHex(iv) \o <<COLON>> \o ToHex(encrypted)

\* mutant: encryption switched off, the text is stored as it is
encryptMessageDisabled(text, iv, env, mem, shown) ==
    LET g == getEncryptionKey(env, mem, shown)
    IN  [ok |-> ~g.threw, text |-> text,
         error |-> IF g.threw THEN "Failed to encrypt message" ELSE "",
         cause |-> IF g.threw THEN "Invalid encryption key length" ELSE "",
         mem |-> g.mem, shown |-> g.shown, warned |-> g.warned]

encryptMessage(text, iv, env, mem, shown) ==
    LET g == getEncryptionKey(env, mem, shown)
        c == IF g.threw THEN None ELSE Cipher(g.key, iv, gzipSync(Utf8Encode(text)))
    IN  [ok     |-> c # None,
         text   |-> IF c # None THEN WireString(iv, c[1]) ELSE <<>>,
         error  |-> IF c # None THEN "" ELSE "Failed to encrypt message",
         cause  |-> IF c # None THEN ""
                    ELSE IF g.threw THEN "Invalid encryption key length"
                    ELSE "Invalid key length",
         mem    |-> g.mem, shown |-> g.shown, warned |-> g.warned]

DecryptSteps(key, encryptedText) ==
    LET parts == Split(encryptedText)
    IN  IF Len(parts) # 2
            THEN [ok |-> FALSE, text |-> <<>>, cause |-> "Invalid encrypted message format"]
        ELSE LET d == Decipher(key, FromHex(parts[1]), FromHex(parts[2]))
             IN  IF d = None
                     THEN [ok |-> FALSE, text |-> <<>>, cause |-> "bad decrypt"]
                 ELSE LET z == gunzipSync(d[1])
                      IN  IF z = None
                              THEN [ok |-> FALSE, text |-> <<>>, cause |-> "incorrect header check"]
                          ELSE [ok |-> TRUE, text |-> Utf8Decode(z[1]), cause |-> ""]

decryptMessage(encryptedText, env, mem, shown) ==
    LET g == getEncryptionKey(env, mem, shown)
        r == IF g.threw
                 THEN [ok |-> FALSE, text |-> <<>>, cause |-> "Invalid encryption key length"]
             ELSE DecryptSteps(g.key, encryptedText)
    IN  [ok     |-> r.ok,
         text   |-> r.text,
         error  |-> IF r.ok THEN "" ELSE "Failed to decrypt message",
         cause  |-> r.cause,
         mem    |-> g.mem, shown |-> g.shown, warned |-> g.warned]

(***************************************************************************)
(* Inputs.                                                                 *)
(***************************************************************************)
\* crypto.randomBytes(IV_LENGTH): two of the 2^128 values
IVs == {[i \in 1..IV_LENGTH |-> (i * 17) % 256], [i \in 1..IV_LENGTH |-> (255 - i * 3) % 256]}

KeyA == [i \in 1..KEY_LENGTH |-> (7 * i + 3) % 256]
KeyB == [i \in 1..KEY_LENGTH |-> (11 * i + 200) % 256]
\* configured values: unset, two good keys, a short key, a key cut short by a
\* character that is not hex
EnvKeys ==
    {<<>>, ToHex(KeyA), ToHex(KeyB), ToHex(SubSeq(KeyA, 1, 2)),
     SubSeq(ToHex(KeyA), 1, 10) \o <<122>> \o SubSeq(ToHex(KeyA), 12, 64)}

\* space, ':', 'a', e-acute, euro sign, and the two halves of U+1F600
CodeUnits == {32, 58, 97, 233, 8364, 55357, 56832}

RECURSIVE StringsUpTo(_)
StringsUpTo(n) ==
    IF n = 0 THEN {<<>>}
    ELSE LET shorter == StringsUpTo(n - 1)
         IN  shorter \cup {Append(s, c) : s \in shorter, c \in CodeUnits}

(***************************************************************************)
(* The Message and User collections as the routes use them.  A request is  *)
(* made by an authenticated user (the protect middleware sets req.user),   *)
(* so the requester is always a stored user.  An id in a request path is   *)
(* a stored id, a well-formed id that matches nothing, or a string that is *)
(* no ObjectId at all; a query on the last kind throws a CastError.        *)
(***************************************************************************)
NoResp ==
    [op |-> "none", status |-> 0, user |-> 0, arg |-> 0, input |-> None,
     text |-> <<>>, list |-> <<>>, count |-> 0, id |-> -1, error |-> ""]

\* no request is being handled: the routes are taken one request at a time
Idle == resp = NoResp

UserIds == {1, 2, 3}
\* 9: a well-formed id of no user;  -1: not an ObjectId
UserIdParams == UserIds \cup {9, -1}
IsObjectId(id) == id >= 0

IsDirect(m) == m.messageType = "direct"

\* .populate(path): the referenced user, or null when it is not in the store
Populate(id) == IF id \in users THEN Some(id) ELSE None

\* mutant: sorted the other way round
RECURSIVE NewestFirstAscending(_)
NewestFirstAscending(S) ==
    IF S = {} THEN {<<>>}
    ELSE UNION {{<<m>> \o q : q \in NewestFirstAscending(S \ {m})} :
                m \in {x \in S : \A y \in S : x.timestamp <= y.timestamp}}

\* the orders .sort({timestamp: -1}) may return (ties in any order)
RECURSIVE NewestFirst(_)
NewestFirst(S) ==
    IF S = {} THEN {<<>>}
    ELSE UNION {{<<m>> \o q : q \in NewestFirst(S \ {m})} :
                m \in {x \in S : \A y \in S : x.timestamp >= y.timestamp}}

\* the orders .sort({timestamp: 1}) may return
RECURSIVE OldestFirst(_)
OldestFirst(S) ==
    IF S = {} THEN {<<>>}
    ELSE UNION {{<<m>> \o q : q \in OldestFirst(S \ {m})} :
                m \in {x \in S : \A y \in S : x.timestamp <= y.timestamp}}

InArray(arr, x) == \E i \in 1..Len(arr) : arr[i] = x
\* $addToSet
AddToSet(arr, x) == IF InArray(arr, x) THEN arr ELSE Append(arr, x)

(***************************************************************************)
(* GET /conversations                                                      *)
(***************************************************************************)
\* mutant: the $or loses its second branch
ConversationMessagesSentOnly(store, userId) ==
    {m \in store : IsDirect(m) /\ m.userId = userId}

\* Message.find({messageType: 'direct', $or: [{userId}, {recipientId: userId}]})
ConversationMessages(store, userId) ==
    {m \in store : IsDirect(m) /\ (m.userId = userId \/ m.recipientId = userId)}

\* mutant: the readBy condition is dropped
UnreadCountIgnoringReadBy(store, other, userId) ==
    Cardinality({m \in store : IsDirect(m) /\ m.userId = other /\ m.recipientId = userId})

\* Message.countDocuments({messageType: 'direct', userId: other, recipientId: userId,
\*                         readBy: {$ne: userId}})
UnreadCount(store, other, userId) ==
    Cardinality({m \in store :
        /\ IsDirect(m)
        /\ m.userId = other
        /\ m.recipientId = userId
        /\ ~InArray(m.readBy, userId)})

HasConversation(acc, other) == \E k \in 1..Len(acc) : acc[k].user = other

ConversationSummary(store, msg, other, userId) ==
    [user        |-> other,
     lastMessage |-> [text |-> msg.text, timestamp |-> msg.timestamp,
                      fromMe |-> msg.userId = userId],
     unreadCount |-> UnreadCount(store, other, userId)]

\* the for loop over the sorted messages; acc is conversationsMap in insertion
\* order.  Reading ._id of a null populated reference throws a TypeError.
RECURSIVE ConversationLoop(_, _, _, _, _)
ConversationLoop(store, sorted, i, userId, acc) ==
    IF i > Len(sorted) THEN [threw |-> FALSE, conversations |-> acc]
    ELSE LET msg == sorted[i]
             sender == Populate(msg.userId)
             recipient == Populate(msg.recipientId)
         IN  IF sender = None THEN [threw |-> TRUE, conversations |-> <<>>]
             ELSE LET otherUser == IF sender[1] = userId THEN recipient ELSE sender
                  IN  IF otherUser = None THEN [threw |-> TRUE, conversations |-> <<>>]
                      ELSE IF HasConversation(acc, otherUser[1])
                          THEN ConversationLoop(store, sorted, i + 1, userId, acc)
                      ELSE ConversationLoop(store, sorted, i + 1, userId,
                               Append(acc, ConversationSummary(store, msg, otherUser[1], userId)))

GetConversations(u) ==
    /\ Idle
    /\ u \in users
    /\ \E sorted \in NewestFirst(ConversationMessages(messages, u)) :
        \E r \in {ConversationLoop(messages, sorted, 1, u, <<>>)} :
            resp' = [NoResp EXCEPT !.op = "conversations", !.user = u,
                                   !.status = IF r.threw THEN 500 ELSE 200,
                                   !.list = r.conversations]
    /\ UNCHANGED <<keyVars, storeVars, codec>>

(***************************************************************************)
(* GET /:userId                                                            *)
(***************************************************************************)
\* '[Encrypted message - decryption failed]'
DecryptionFailedText ==
    <<91, 69, 110, 99, 114, 121, 112, 116, 101, 100, 32, 109, 101, 115, 115, 97,
      103, 101, 32, 45, 32, 100, 101, 99, 114, 121, 112, 116, 105, 111, 110, 32,
      102, 97, 105, 108, 101, 100, 93>>

\* mutant: the $or keeps the first direction only
ThreadMessagesOneWay(store, a, b) ==
    {m \in store : IsDirect(m) /\ m.userId = a /\ m.recipientId = b}

\* Message.find({messageType: 'direct', $or: [{userId: a, recipientId: b},
\*                                            {userId: b, recipientId: a}]})
ThreadMessages(store, a, b) ==
    {m \in store :
        /\ IsDirect(m)
        /\ \/ (m.userId = a /\ m.recipientId = b)
           \/ (m.userId = b /\ m.recipientId = a)}

\* mutant: the catch branch returns the record as stored
ThreadEntryRaw(msg, d, currentUserId) ==
    [_id |-> msg._id, text |-> IF d.ok THEN d.text ELSE msg.text, userId |-> msg.userId,
     timestamp |-> msg.timestamp, readBy |-> msg.readBy,
     isFromCurrentUser |-> msg.userId = currentUserId]

\* one element of messages.map(...): the try branch, or the catch branch
ThreadEntry(msg, d, currentUserId) ==
    IF d.ok
        THEN [_id |-> msg._id, text |-> d.text, userId |-> msg.userId,
              timestamp |-> msg.timestamp, readBy |-> msg.readBy,
              isFromCurrentUser |-> msg.userId = currentUserId]
    ELSE [_id |-> msg._id, messageType |-> msg.messageType, userId |-> msg.userId,
          recipientId |-> msg.recipientId, timestamp |-> msg.timestamp,
          readBy |-> msg.readBy, text |-> DecryptionFailedText,
          isFromCurrentUser |-> msg.userId = currentUserId]

\* messages.map(...): each call of decryptMessage sees the key state the
\* previous call left
RECURSIVE DecryptLoop(_, _, _, _, _, _, _)
DecryptLoop(sorted, i, currentUserId, env, mem, shown, warned) ==
    IF i > Len(sorted)
        THEN [list |-> <<>>, mem |-> mem, shown |-> shown, warned |-> warned]
    ELSE LET d == decryptMessage(sorted[i].text, env, mem, shown)
             rest == DecryptLoop(sorted, i + 1, currentUserId, env, d.mem, d.shown,
                                 warned + (IF d.warned THEN 1 ELSE 0))
         IN  [rest EXCEPT !.list = <<ThreadEntry(sorted[i], d, currentUserId)>> \o @]

\* mutant: the text of every returned entry is saved back to its message
GetMessagesSavingText(u, otherUserId) ==
    /\ Idle
    /\ u \in users
    /\ IF ~IsObjectId(otherUserId)
           THEN /\ resp' = [NoResp EXCEPT !.op = "thread", !.user = u,
                                          !.arg = otherUserId, !.status = 500]
                /\ UNCHANGED <<keyVars, messages>>
       ELSE IF otherUserId \notin users
           THEN /\ resp' = [NoResp EXCEPT !.op = "thread", !.user = u,
                                          !.arg = otherUserId, !.status = 404]
                /\ UNCHANGED <<keyVars, messages>>
       ELSE \E sorted \in OldestFirst(ThreadMessages(messages, u, otherUserId)) :
               \E r \in {DecryptLoop(sorted, 1, u, envKey, ENCRYPTION_KEY,
                                     keyWarningShown, 0)} :
                   /\ resp' = [NoResp EXCEPT !.op = "thread", !.user = u,
                                             !.arg = otherUserId, !.status = 200,
                                             !.list = r.list]
                   /\ messages' =
                          {IF \E k \in 1..Len(r.list) : r.list[k]._id = m._id
                               THEN [m EXCEPT !.text =
                                        r.list[CHOOSE k \in 1..Len(r.list) :
                                                   r.list[k]._id = m._id].text]
                           ELSE m : m \in messages}
                   /\ ENCRYPTION_KEY' = r.mem
                   /\ keyWarningShown' = r.shown
                   /\ warnings' = warnings + r.warned
                   /\ UNCHANGED envKey
    /\ UNCHANGED <<users, submitted, clock, sends, codec>>

GetMessages(u, otherUserId) ==
    /\ Idle
    /\ u \in users
    /\ IF ~IsObjectId(otherUserId)
           THEN /\ resp' = [NoResp EXCEPT !.op = "thread", !.user = u,
                                          !.arg = otherUserId, !.status = 500]
                /\ UNCHANGED keyVars
       ELSE IF otherUserId \notin users
           THEN /\ resp' = [NoResp EXCEPT !.op = "thread", !.user = u,
                                          !.arg = otherUserId, !.status = 404]
                /\ UNCHANGED keyVars
       ELSE \E sorted \in OldestFirst(ThreadMessages(messages, u, otherUserId)) :
               \E r \in {DecryptLoop(sorted, 1, u, envKey, ENCRYPTION_KEY,
                                     keyWarningShown, 0)} :
                   /\ resp' = [NoResp EXCEPT !.op = "thread", !.user = u,
                                             !.arg = otherUserId, !.status = 200,
                                             !.list = r.list]
                   /\ ENCRYPTION_KEY' = r.mem
                   /\ keyWarningShown' = r.shown
                   /\ warnings' = warnings + r.warned
                   /\ UNCHANGED envKey
    /\ UNCHANGED <<storeVars, codec>>

(***************************************************************************)
(* POST /:userId                                                           *)
(***************************************************************************)
\* the code units String.prototype.trim() strips
IsWhiteSpace(cu) ==
    \/ cu \in {9, 10, 11, 12, 13, 32, 160, 5760, 8232, 8233, 8239, 8287, 12288, 65279}
    \/ (cu >= 8192 /\ cu <= 8202)

Trim(str) ==
    LET kept == {i \in 1..Len(str) : ~IsWhiteSpace(str[i])}
    IN  IF kept = {} THEN <<>>
        ELSE SubSeq(str, CHOOSE i \in kept : \A j \in kept : i <= j,
                         CHOOSE i \in kept : \A j \in kept : i >= j)

\* !text || !text.trim()   (text: None when the body has no text field)
TextMissing(text) == text = None \/ text[1] = <<>> \/ Trim(text[1]) = <<>>

\* mutant: the message is created with nobody in readBy
NewMessageUnread(id, now, currentUserId, recipientId, encryptedText) ==
    [_id |-> id, messageType |-> "direct", userId |-> currentUserId,
     recipientId |-> recipientId, text |-> encryptedText, timestamp |-> now,
     readBy |-> <<>>]

\* new Message({...}) as saved; the model assigns _id and timestamp
NewMessage(id, now, currentUserId, recipientId, encryptedText) ==
    [_id |-> id, messageType |-> "direct", userId |-> currentUserId,
     recipientId |-> recipientId, text |-> encryptedText, timestamp |-> now,
     readBy |-> <<currentUserId>>]

\* mutant: the echo is decrypted from what was stored
SendEchoDecrypted(text, encryptedText, key) == DecryptSteps(key, encryptedText).text

\* text of the 201 response, given what is in scope there: the body's text, the
\* stored ciphertext and the key
SendEcho(text, encryptedText, key) == Trim(text)

\* request bodies: no text field, '', ' ', and what each user types: ' a ' and
\* 'b' followed by half of an emoji (a lone high surrogate)
SendInputs(u) ==
    {None, Some(<<>>), Some(<<32>>),
     IF u = 1 THEN Some(<<32, 97, 32>>) ELSE Some(<<98, 55357>>)}

\* the 400 / 500 / 404 answers, which touch nothing
SendRejected(u, recipientId, text, status) ==
    /\ resp' = [NoResp EXCEPT !.op = "send", !.user = u, !.arg = recipientId,
                              !.input = text, !.status = status]
    /\ UNCHANGED <<keyVars, storeVars>>

\* ivs: the values crypto.randomBytes may return; ticks: how far Date.now() has
\* moved since the latest save; limit: the number of messages a behaviour creates
SendMessage(u, recipientId, text, ivs, ticks, limit) ==
    /\ Idle
    /\ u \in users
    /\ IF TextMissing(text) THEN SendRejected(u, recipientId, text, 400)
       ELSE IF ~IsObjectId(recipientId) THEN SendRejected(u, recipientId, text, 500)
       ELSE IF recipientId \notin users THEN SendRejected(u, recipientId, text, 404)
       ELSE \E iv \in ivs, tick \in ticks :
            \E e \in {encryptMessage(Trim(text[1]), iv, envKey, ENCRYPTION_KEY,
                                     keyWarningShown)} :
                /\ ENCRYPTION_KEY' = e.mem
                /\ keyWarningShown' = e.shown
                /\ warnings' = warnings + (IF e.warned THEN 1 ELSE 0)
                /\ UNCHANGED <<envKey, users>>
                /\ IF ~e.ok
                       THEN /\ resp' = [NoResp EXCEPT !.op = "send", !.user = u,
                                                      !.arg = recipientId, !.input = text,
                                                      !.status = 500]
                            /\ UNCHANGED <<messages, submitted, clock, sends>>
                   ELSE /\ sends < limit
                        /\ sends' = sends + 1
                        /\ clock' = clock + tick
                        /\ messages' = messages \cup
                               {NewMessage(sends + 1, clock + tick, u, recipientId, e.text)}
                        /\ submitted' = Append(submitted, [text |-> text[1], key |-> e.mem[1]])
                        /\ resp' = [NoResp EXCEPT !.op = "send", !.user = u,
                                                  !.arg = recipientId, !.input = text,
                                                  !.status = 201, !.id = sends + 1,
                                                  !.text = SendEcho(text[1], e.text, e.mem[1])]
    /\ UNCHANGED codec

(***************************************************************************)
(* PATCH /:userId/read                                                     *)
(***************************************************************************)
\* mutant: the readBy: {$ne} condition is dropped
ReadFilterAnyReader(m, otherUserId, currentUserId) ==
    /\ IsDirect(m)
    /\ m.userId = otherUserId
    /\ m.recipientId = currentUserId

\* the filter of Message.updateMany
ReadFilter(m, otherUserId, currentUserId) ==
    /\ IsDirect(m)
    /\ m.userId = otherUserId
    /\ m.recipientId = currentUserId
    /\ ~InArray(m.readBy, currentUserId)

MarkAsRead(u, otherUserId) ==
    /\ Idle
    /\ u \in users
    /\ IF ~IsObjectId(otherUserId)
           THEN /\ resp' = [NoResp EXCEPT !.op = "read", !.user = u, !.arg = otherUserId,
                                          !.status = 500]
                /\ UNCHANGED messages
       ELSE /\ messages' =
                  {IF ReadFilter(m, otherUserId, u)
                       THEN [m EXCEPT !.readBy = AddToSet(@, u)] ELSE m : m \in messages}
            /\ resp' = [NoResp EXCEPT !.op = "read", !.user = u, !.arg = otherUserId,
                                      !.status = 200,
                                      !.count = Cardinality({m \in messages :
                                                    ReadFilter(m, otherUserId, u)})]
    /\ UNCHANGED <<keyVars, users, submitted, clock, sends, codec>>

(***************************************************************************)
(* DELETE /clear/:userId  and  DELETE /:messageId                          *)
(***************************************************************************)
ClearChat(u, otherUserId) ==
    /\ Idle
    /\ u \in users
    /\ IF ~IsObjectId(otherUserId)
           THEN /\ resp' = [NoResp EXCEPT !.op = "clear", !.user = u, !.arg = otherUserId,
                                          !.status = 500]
                /\ UNCHANGED messages
       ELSE /\ messages' = messages \ ThreadMessages(messages, u, otherUserId)
            /\ resp' = [NoResp EXCEPT !.op = "clear", !.user = u, !.arg = otherUserId,
                                      !.status = 200,
                                      !.count = Cardinality(
                                                    ThreadMessages(messages, u, otherUserId))]
    /\ UNCHANGED <<keyVars, users, submitted, clock, sends, codec>>

\* mutant: the sender condition is dropped
FindAnyDirectMessage(store, messageId, userId) ==
    {m \in store : m._id = messageId /\ IsDirect(m)}

\* Message.findOne({_id: messageId, messageType: 'direct', userId: req.user._id})
FindOwnMessage(store, messageId, userId) ==
    {m \in store : m._id = messageId /\ IsDirect(m) /\ m.userId = userId}

\* the error of the 404 body
NotFoundOrNotYours == "Message not found or you are not authorized to delete it"

\* mutant: a message of another sender is told apart from a missing one
DeleteMessageForbidden(u, messageId) ==
    /\ Idle
    /\ u \in users
    /\ IF ~IsObjectId(messageId)
           THEN resp' = [NoResp EXCEPT !.op = "delete", !.user = u, !.arg = messageId,
                                       !.status = 500,
                                       !.error = "Failed to delete message"]
       ELSE IF \E m \in messages : m._id = messageId /\ IsDirect(m)
           THEN resp' = [NoResp EXCEPT !.op = "delete", !.user = u, !.arg = messageId,
                                       !.status = 403, !.error = "Not authorized"]
       ELSE resp' = [NoResp EXCEPT !.op = "delete", !.user = u, !.arg = messageId,
                                   !.status = 404, !.error = NotFoundOrNotYours]
    /\ UNCHANGED <<keyVars, storeVars, codec>>

DeleteMessage(u, messageId) ==
    /\ Idle
    /\ u \in users
    /\ IF ~IsObjectId(messageId)
           THEN /\ resp' = [NoResp EXCEPT !.op = "delete", !.user = u, !.arg = messageId,
                                          !.status = 500,
                                          !.error = "Failed to delete message"]
                /\ UNCHANGED messages
       ELSE IF FindOwnMessage(messages, messageId, u) = {}
           THEN /\ resp' = [NoResp EXCEPT !.op = "delete", !.user = u, !.arg = messageId,
                                          !.status = 404, !.error = NotFoundOrNotYours]
                /\ UNCHANGED messages
       ELSE /\ messages' = {m \in messages : m._id # messageId}
            /\ resp' = [NoResp EXCEPT !.op = "delete", !.user = u, !.arg = messageId,
                                      !.status = 200, !.id = messageId]
    /\ UNCHANGED <<keyVars, users, submitted, clock, sends, codec>>

(***************************************************************************)
(* The router.  A path is the sequence of its segments after the mount     *)
(* point; a segment is a word or an id.  As a route parameter a word is a  *)
(* string that is no ObjectId.  A request goes to the first route, in the  *)
(* order of registration, whose method and pattern match.                  *)
(***************************************************************************)
Word(w) == [lit |-> w, id |-> -1]
IdSegment(n) == [lit |-> "", id |-> n]

Literal(w) == [kind |-> "literal", name |-> w]
Param(n) == [kind |-> "param", name |-> n]

\* mutant: the bulk clear is registered with router.get
RoutesClearUnderGet ==
    << [method |-> "GET",    pattern |-> <<Literal("users")>>,         handler |-> "users"],
       [method |-> "GET",    pattern |-> <<Literal("conversations")>>, handler |-> "conversations"],
       [method |-> "GET",    pattern |-> <<Param("userId")>>,          handler |-> "thread"],
       [method |-> "POST",   pattern |-> <<Param("userId")>>,          handler |-> "send"],
       [method |-> "PATCH",  pattern |-> <<Param("userId"), Literal("read")>>,
                                                                       handler |-> "read"],
       [method |-> "GET",    pattern |-> <<Literal("clear"), Param("userId")>>,
                                                                       handler |-> "clear"],
       [method |-> "DELETE", pattern |-> <<Param("messageId")>>,       handler |-> "delete"] >>

\* router.get / post / patch / delete, in the order of the file
Routes ==
    << [method |-> "GET",    pattern |-> <<Literal("users")>>,         handler |-> "users"],
       [method |-> "GET",    pattern |-> <<Literal("conversations")>>, handler |-> "conversations"],
       [method |-> "GET",    pattern |-> <<Param("userId")>>,          handler |-> "thread"],
       [method |-> "POST",   pattern |-> <<Param("userId")>>,          handler |-> "send"],
       [method |-> "PATCH",  pattern |-> <<Param("userId"), Literal("read")>>,
                                                                       handler |-> "read"],
       [method |-> "DELETE", pattern |-> <<Literal("clear"), Param("userId")>>,
                                                                       handler |-> "clear"],
       [method |-> "DELETE", pattern |-> <<Param("messageId")>>,       handler |-> "delete"] >>

\* a pattern matches a path of as many segments whose words are its literals
Matches(pattern, path) ==
    /\ Len(pattern) = Len(path)
    /\ \A i \in 1..Len(pattern) :
          pattern[i].kind = "literal" => path[i].lit = pattern[i].name

Dispatch(method, path) ==
    LET hits == {i \in 1..Len(Routes) :
                    Routes[i].method = method /\ Matches(Routes[i].pattern, path)}
    IN  IF hits = {} THEN "none"
        ELSE Routes[CHOOSE i \in hits : \A j \in hits : i <= j].handler

\* api.delete(`/direct-messages/clear/${userId}`), api.delete(`/direct-messages/${messageId}`)
clearDirectMessages(userId) == <<Word("clear"), IdSegment(userId)>>
deleteDirectMessage(messageId) == <<IdSegment(messageId)>>

NoRequest == [method |-> "", user |-> 0, path |-> <<>>]

\* no conversation-list request is between two awaits
\* sorted: the result of the find; others: the populated counterpart of each
\* message (None where reading it throws); i: the loop index; acc: conversationsMap;
\* raced: a send or mark-read was handled while the request was in flight;
\* stale: some list answered so far carried a count the store no longer had
NoListing ==
    [active |-> FALSE, user |-> 0, sorted |-> <<>>, others |-> <<>>, i |-> 0,
     acc |-> <<>>, raced |-> FALSE, stale |-> FALSE]

\* MessagesPage as mounted: selectedUser is null (0), messages is [] (the ids of the
\* entries shown, in order), isSending is false; inflight holds the responses on
\* their way to the page and marks the mark-read requests on their way to the
\* server.  History: cleared, the ids stored between the two users when Clear Chat
\* was confirmed, and alerted, 'Chat cleared successfully' has been shown.
NoClient ==
    [selectedUser |-> 0, messages |-> <<>>, isSending |-> FALSE,
     inflight |-> {}, marks |-> {}, cleared |-> {}, alerted |-> FALSE]

\* no route of the router matches: the request leaves it and gets the 404 of express
Unrouted(u) ==
    /\ Idle
    /\ u \in users
    /\ resp' = [NoResp EXCEPT !.op = "unrouted", !.user = u, !.status = 404]
    /\ UNCHANGED <<keyVars, storeVars, codec>>

\* a DELETE request of user u arrives at the router
DeleteRequest(u, path) ==
    /\ request' = [method |-> "DELETE", user |-> u, path |-> path]
    /\ \E handler \in {Dispatch("DELETE", path)} :
          \/ handler = "clear" /\ ClearChat(u, path[2].id)
          \/ handler = "delete" /\ DeleteMessage(u, path[1].id)
          \/ handler = "none" /\ Unrouted(u)

(***************************************************************************)
(* The environment: an account is removed from the User collection (by a   *)
(* route outside this file), and the server process is started again with  *)
(* a (possibly different) configured key.                                  *)
(***************************************************************************)
DeleteUser(v) ==
    /\ Idle
    /\ v \in users
    /\ users' = users \ {v}
    /\ resp' = NoResp
    /\ UNCHANGED <<keyVars, messages, submitted, clock, sends, codec>>

ServerEnvKeys == {<<>>, ToHex(KeyA), ToHex(SubSeq(KeyA, 1, 2))}

Restart(env) ==
    /\ Idle
    /\ envKey' = env
    /\ ENCRYPTION_KEY' = None
    /\ keyWarningShown' = FALSE
    /\ warnings' = 0
    /\ resp' = NoResp
    /\ UNCHANGED <<storeVars, codec>>

\* a team message written by the team-chat routes: its text is not ciphertext
TeamMessage ==
    [_id |-> 0, messageType |-> "team", userId |-> 1, recipientId |-> 0,
     text |-> <<97>>, timestamp |-> 0, readBy |-> <<1>>]

Init ==
    /\ envKey = <<>>
    /\ ENCRYPTION_KEY = None
    /\ keyWarningShown = FALSE
    /\ warnings = 0
    /\ users = UserIds
    /\ messages = {TeamMessage}
    /\ submitted = <<>>
    /\ clock = 1
    /\ sends = 0
    /\ resp = NoResp
    /\ codec = [pc |-> "idle", plain |-> <<>>, wire |-> <<>>, out |-> <<>>,
                error |-> "", cause |-> ""]
    /\ request = NoRequest
    /\ listing = NoListing
    /\ client = NoClient

\* res.json(...) has been received by the client
Respond ==
    /\ ~Idle
    /\ resp' = NoResp
    /\ request' = NoRequest
    /\ UNCHANGED <<keyVars, storeVars, codec>>

(***************************************************************************)
(* Spec: every route, requested by every user.  Messages go from 1 to 2,   *)
(* 2 to 1, 3 to 2 and 1 to 3, all with one text under one IV and the       *)
(* default key, each a millisecond after the one before; account 3 may be  *)
(* removed.  DELETE requests arrive through the router.                    *)
(***************************************************************************)
SendPairs == {<<1, 2>>, <<2, 1>>, <<3, 2>>, <<1, 3>>}

\* the paths of the DELETE requests: the two the client builds, /clear alone, and
\* one that is too long
DeletePaths ==
    {clearDirectMessages(p) : p \in UserIdParams}
        \cup {deleteDirectMessage(id) : id \in (0..(sends + 1)) \cup {-1}}
        \cup {<<Word("clear")>>, <<Word("clear"), IdSegment(1), Word("read")>>}

Next ==
    \/ \E u \in UserIds : GetConversations(u) /\ UNCHANGED routeVars
    \/ \E u \in UserIds, p \in UserIdParams : GetMessages(u, p) /\ UNCHANGED routeVars
    \/ \E pr \in SendPairs :
          /\ SendMessage(pr[1], pr[2], Some(<<32, 97, 32>>), {CHOOSE iv \in IVs : TRUE},
                         {1}, MaxSends)
          /\ UNCHANGED routeVars
    \/ \E u \in UserIds, p \in UserIdParams : MarkAsRead(u, p) /\ UNCHANGED routeVars
    \/ \E u \in UserIds, path \in DeletePaths : DeleteRequest(u, path) /\ UNCHANGED <<listing, client>>
    \/ DeleteUser(3) /\ UNCHANGED routeVars
    \/ Respond /\ UNCHANGED <<listing, client>>

Spec == Init /\ [][Next]_vars

(***************************************************************************)
(* SendSpec: users 1 and 2 write to each other, to an id of no user and to *)
(* a malformed id, with every kind of request body, in the millisecond of  *)
(* the message before or the next one; threads and conversation lists are  *)
(* fetched; the process is restarted under another configured key.         *)
(***************************************************************************)
SendNext ==
    \/ \E u \in {1, 2} : \E p \in {1, 2, 9, -1} \ {u}, t \in SendInputs(u) :
          /\ SendMessage(u, p, t, {CHOOSE iv \in IVs : TRUE}, {0, 1}, MaxThread)
          /\ UNCHANGED routeVars
    \/ \E u \in {1, 2} : \E p \in {1, 2, 9, -1} \ {u} :
          GetMessages(u, p) /\ UNCHANGED routeVars
    \/ \E u \in {1, 2} : GetConversations(u) /\ UNCHANGED routeVars
    \/ \E env \in ServerEnvKeys : Restart(env) /\ UNCHANGED routeVars
    \/ Respond /\ UNCHANGED <<listing, client>>

SendSpec == Init /\ [][SendNext]_vars

(***************************************************************************)
(* RaceSpec: GET /conversations taken await by await.  The find with its   *)
(* populate and sort is one store operation, every countDocuments is       *)
(* another, and the loop runs without interruption between two of them.    *)
(* Sends and mark-reads are handled while a list request is in flight.     *)
(***************************************************************************)
MaxRace == 2

\* the counterpart the loop reads from a populated message, None where reading
\* ._id of a null reference throws
OtherUser(msg, userId) ==
    IF Populate(msg.userId) = None THEN None
    ELSE IF msg.userId = userId THEN Populate(msg.recipientId)
    ELSE Some(msg.userId)

\* the index at which the loop started at i next awaits a count or throws:
\* messages of a counterpart that is in the map already are passed over
RECURSIVE NextAwait(_, _, _)
NextAwait(others, i, acc) ==
    IF i > Len(others) THEN i
    ELSE IF others[i] = None THEN i
    ELSE IF HasConversation(acc, others[i][1]) THEN NextAwait(others, i + 1, acc)
    ELSE i

\* mutant: conversationsMap is kept from one request to the next
ListStartKeepingMap(u) ==
    /\ Idle
    /\ ~listing.active
    /\ u \in users
    /\ \E sorted \in NewestFirst(ConversationMessages(messages, u)) :
          listing' = [active |-> TRUE, user |-> u, sorted |-> sorted,
                      others |-> [k \in 1..Len(sorted) |-> OtherUser(sorted[k], u)],
                      i |-> 1, acc |-> listing.acc, raced |-> FALSE,
                      stale |-> listing.stale]
    /\ UNCHANGED <<keyVars, storeVars, resp, codec, request, client>>

\* lines 105-117: the find, populated and sorted, and an empty conversationsMap
ListStart(u) ==
    /\ Idle
    /\ ~listing.active
    /\ u \in users
    /\ \E sorted \in NewestFirst(ConversationMessages(messages, u)) :
          listing' = [active |-> TRUE, user |-> u, sorted |-> sorted,
                      others |-> [k \in 1..Len(sorted) |-> OtherUser(sorted[k], u)],
                      i |-> 1, acc |-> <<>>, raced |-> FALSE,
                      stale |-> listing.stale]
    /\ UNCHANGED <<keyVars, storeVars, resp, codec, request, client>>

\* lines 119-149: the loop up to and including its next countDocuments, which
\* reads the store as it is now; or up to the TypeError of a null reference
ListStep ==
    /\ listing.active
    /\ \E j \in {NextAwait(listing.others, listing.i, listing.acc)} :
          /\ j <= Len(listing.sorted)
          /\ IF listing.others[j] = None
                 THEN /\ Idle
                      /\ resp' = [NoResp EXCEPT !.op = "conversations",
                                                !.user = listing.user, !.status = 500]
                      /\ listing' = [listing EXCEPT !.active = FALSE, !.acc = <<>>]
             ELSE /\ listing' = [listing EXCEPT
                          !.i = j + 1,
                          !.acc = Append(@, ConversationSummary(messages, listing.sorted[j],
                                                listing.others[j][1], listing.user))]
                  /\ UNCHANGED resp
    /\ UNCHANGED <<keyVars, storeVars, codec, request, client>>

\* lines 152-153: the loop has ended, the values of the map are the response
ListFinish ==
    /\ Idle
    /\ listing.active
    /\ NextAwait(listing.others, listing.i, listing.acc) > Len(listing.sorted)
    /\ resp' = [NoResp EXCEPT !.op = "conversations", !.user = listing.user,
                              !.status = 200, !.list = listing.acc]
    /\ listing' = [listing EXCEPT
           !.active = FALSE,
           !.stale = @ \/ \E k \in 1..Len(listing.acc) :
                              listing.acc[k].unreadCount #
                                  UnreadCount(messages, listing.acc[k].user, listing.user)]
    /\ UNCHANGED <<keyVars, storeVars, codec, request, client>>

\* a request that writes the store, handled while a list request may be in flight
DuringListing(write) ==
    /\ write
    /\ listing' = IF listing.active THEN [listing EXCEPT !.raced = TRUE] ELSE listing
    /\ UNCHANGED <<request, client>>

RacePairs == {<<1, 2>>, <<3, 2>>, <<2, 1>>}

RaceNext ==
    \/ \E u \in {1, 2} : ListStart(u)
    \/ ListStep
    \/ ListFinish
    \/ \E pr \in RacePairs :
          DuringListing(SendMessage(pr[1], pr[2], Some(<<32, 97, 32>>),
                                    {CHOOSE iv \in IVs : TRUE}, {1}, MaxRace))
    \/ \E u \in {1, 2} : \E p \in {1, 2, 3} \ {u} : DuringListing(MarkAsRead(u, p))
    \/ Respond /\ UNCHANGED <<listing, client>>

RaceSpec == Init /\ [][RaceNext]_vars

(***************************************************************************)
(* ClientSpec: MessagesPage of user 1 against the server.  The page polls  *)
(* the thread of the selected user, sends, and clears the chat; user 2     *)
(* writes to user 1 meanwhile.       A request is handled by the server in *)
(* one step; its response reaches the page in a later step, and responses  *)
(* of different requests arrive in any order.  The conversation list the   *)
(* page keeps beside the thread is left out.                               *)
(***************************************************************************)
MaxChat == 2
MaxInFlight == 2

Me == 1
Peers == {2, 3}

\* res.data.messages of a thread response, as the ids of its entries
EntryIds(list) == [k \in 1..Len(list) |-> list[k]._id]

Range(seq) == {seq[k] : k \in 1..Len(seq)}

ThreadResponse(userId, r, late) ==
    [kind |-> "thread", for |-> userId, status |-> r.status, ids |-> EntryIds(r.list),
     afterClear |-> late]

SendResponse(userId, r) ==
    [kind |-> "send", for |-> userId, status |-> r.status,
     ids |-> IF r.status = 201 THEN <<r.id>> ELSE <<>>, afterClear |-> FALSE]

\* handleSelectUser, lines 272-276: the effect of lines 193-201 then polls for the
\* user selected, until another one is
handleSelectUser(userData) ==
    /\ userData # client.selectedUser
    /\ client' = [client EXCEPT !.selectedUser = userData]
    /\ UNCHANGED <<keyVars, storeVars, resp, codec, request, listing>>

\* loadMessages up to its first await, lines 195-197 and 238: the request of the
\* effect or of its interval is handled by the server
PollThread ==
    /\ client.selectedUser # 0
    /\ Cardinality(client.inflight) < MaxInFlight
    /\ GetMessages(Me, client.selectedUser)
    /\ client' = [client EXCEPT !.inflight =
                     @ \cup {ThreadResponse(client.selectedUser, resp', client.alerted)}]
    /\ UNCHANGED <<request, listing>>

\* loadMessages from the response of getDirectMessages on, lines 239-242: the list
\* shown is replaced and the mark-read request leaves
ThreadArrives(r) ==
    /\ r \in client.inflight
    /\ r.kind = "thread"
    /\ client' = IF r.status = 200
                     THEN [client EXCEPT !.inflight = @ \ {r},
                                         !.messages = r.ids,
                                         !.marks = @ \cup {[for |-> r.for,
                                                            fetched |-> Range(r.ids)]}]
                 ELSE [client EXCEPT !.inflight = @ \ {r}]
    /\ UNCHANGED <<keyVars, storeVars, resp, codec, request, listing>>

\* markDirectMessagesAsRead(userId) of line 242 is handled by the server
MarkArrives(mk) ==
    /\ mk \in client.marks
    /\ MarkAsRead(Me, mk.for)
    /\ client' = [client EXCEPT !.marks = @ \ {mk}]
    /\ UNCHANGED <<request, listing>>

\* handleSendMessage up to its await, lines 251-257
handleSendMessage(newMessage) ==
    /\ Trim(newMessage) # <<>>
    /\ client.selectedUser # 0
    /\ ~client.isSending
    /\ Cardinality(client.inflight) < MaxInFlight
    /\ SendMessage(Me, client.selectedUser, Some(newMessage), {CHOOSE iv \in IVs : TRUE},
                   {1}, MaxChat)
    /\ client' = [client EXCEPT !.isSending = TRUE,
                                !.inflight = @ \cup {SendResponse(client.selectedUser, resp')}]
    /\ UNCHANGED <<request, listing>>

\* handleSendMessage from the response on, lines 258-269
SendArrives(r) ==
    /\ r \in client.inflight
    /\ r.kind = "send"
    /\ client' = IF r.status = 201
                     THEN [client EXCEPT !.inflight = @ \ {r},
                                         !.messages = Append(@, r.ids[1]),
                                         !.isSending = FALSE]
                 ELSE [client EXCEPT !.inflight = @ \ {r}, !.isSending = FALSE]
    /\ UNCHANGED <<keyVars, storeVars, resp, codec, request, listing>>

\* handleClearChat with the dialog confirmed, lines 278-296: the list shown is
\* emptied and the alert shown; no request is sent
handleClearChat ==
    /\ client.selectedUser # 0
    /\ client' = [client EXCEPT
           !.messages = <<>>,
           !.cleared = {m._id : m \in ThreadMessages(messages, Me, client.selectedUser)},
           !.alerted = TRUE,
           !.inflight = {[r EXCEPT !.afterClear = FALSE] : r \in @}]
    /\ UNCHANGED <<keyVars, storeVars, resp, codec, request, listing>>

\* another user's page sends to the signed-in user
PeerSends(u) ==
    /\ SendMessage(u, Me, Some(<<98>>), {CHOOSE iv \in IVs : TRUE}, {1}, MaxChat)
    /\ UNCHANGED routeVars

ClientNext ==
    \/ \E u \in Peers : handleSelectUser(u)
    \/ PollThread
    \/ \E r \in client.inflight : ThreadArrives(r)
    \/ \E mk \in client.marks : MarkArrives(mk)
    \/ handleSendMessage(<<97>>)
    \/ \E r \in client.inflight : SendArrives(r)
    \/ handleClearChat
    \/ PeerSends(2)
    \/ Respond /\ UNCHANGED <<listing, client>>

ClientSpec == Init /\ [][ClientNext]_vars

(***************************************************************************)
(* The codec on its own: one plaintext is encoded under a drawn IV, then   *)
(* the wire string is decoded.                                             *)
(***************************************************************************)
ServerIdle ==
    /\ users = {}
    /\ messages = {}
    /\ submitted = <<>>
    /\ clock = 0
    /\ sends = 0
    /\ resp = NoResp
    /\ request = NoRequest
    /\ listing = NoListing
    /\ client = NoClient

\* 'a' as encryptMessage writes it under KeyA
WireOfA ==
    WireString(CHOOSE iv \in IVs : TRUE,
               Cipher(KeyA, CHOOSE iv \in IVs : TRUE, gzipSync(Utf8Encode(<<97>>)))[1])

\* texts a record may hold: '', 'ab', 'zz', ':', '::', 'ab:cd', 'a:b:c', a ciphertext,
\* the ciphertext without its colon, and the ciphertext followed by ':' or ':ab'
StoredTexts ==
    {<<>>, <<97, 98>>, <<122, 122>>, <<COLON>>, <<COLON, COLON>>,
     <<97, 98, COLON, 99, 100>>, <<97, COLON, 98, COLON, 99>>,
     WireOfA,
     SelectSeq(WireOfA, LAMBDA cu : cu # COLON),
     WireOfA \o <<COLON>>,
     WireOfA \o <<COLON, 97, 98>>}

CodecInit ==
    /\ envKey \in EnvKeys
    /\ ENCRYPTION_KEY = None
    /\ keyWarningShown = FALSE
    /\ warnings = 0
    /\ ServerIdle
    /\ \/ codec \in [pc : {"plain"}, plain : StringsUpTo(MaxLen), wire : {<<>>},
                      out : {<<>>}, error : {""}, cause : {""}]
       \/ codec \in [pc : {"stored"}, plain : {<<>>}, wire : StoredTexts, out : {<<>>},
                      error : {""}, cause : {""}]

CodecEncode ==
    /\ codec.pc = "plain"
    /\ \E iv \in IVs :
        \E e \in {encryptMessage(codec.plain, iv, envKey, ENCRYPTION_KEY,
                                 keyWarningShown)} :
            /\ ENCRYPTION_KEY' = e.mem
            /\ keyWarningShown' = e.shown
            /\ warnings' = warnings + (IF e.warned THEN 1 ELSE 0)
            /\ codec' = [codec EXCEPT !.pc = IF e.ok THEN "encoded" ELSE "encodeFailed",
                                      !.wire = e.text, !.error = e.error,
                                      !.cause = e.cause]
    /\ UNCHANGED <<envKey, storeVars, resp>>

CodecDecode ==
    /\ codec.pc = "encoded"
    /\ \E d \in {decryptMessage(codec.wire, envKey, ENCRYPTION_KEY, keyWarningShown)} :
           /\ ENCRYPTION_KEY' = d.mem
           /\ keyWarningShown' = d.shown
           /\ warnings' = warnings + (IF d.warned THEN 1 ELSE 0)
           /\ codec' = [codec EXCEPT !.pc = IF d.ok THEN "decoded" ELSE "decodeFailed",
                                     !.out = d.text, !.error = d.error,
                                     !.cause = d.cause]
    /\ UNCHANGED <<envKey, storeVars, resp>>

\* decryptMessage is called with a text read from the store
CodecDecodeStored ==
    /\ codec.pc = "stored"
    /\ \E d \in {decryptMessage(codec.wire, envKey, ENCRYPTION_KEY, keyWarningShown)} :
           /\ ENCRYPTION_KEY' = d.mem
           /\ keyWarningShown' = d.shown
           /\ warnings' = warnings + (IF d.warned THEN 1 ELSE 0)
           /\ codec' = [codec EXCEPT
                            !.pc = IF d.ok THEN "storedDecoded" ELSE "storedFailed",
                            !.out = d.text, !.error = d.error, !.cause = d.cause]
    /\ UNCHANGED <<envKey, storeVars, resp>>

CodecNext ==
    \/ CodecEncode /\ UNCHANGED routeVars
    \/ CodecDecode /\ UNCHANGED routeVars
    \/ CodecDecodeStored /\ UNCHANGED routeVars

CodecSpec == CodecInit /\ [][CodecNext]_vars

KeyResolvedValid == ENCRYPTION_KEY # None /\ Len(ENCRYPTION_KEY[1]) = KEY_LENGTH

(***************************************************************************)
(* What the claims are stated with.                                        *)
(***************************************************************************)
RECURSIVE DropLeading(_)
DropLeading(str) ==
    IF Len(str) > 0 /\ IsWhiteSpace(str[1]) THEN DropLeading(Tail(str)) ELSE str

RECURSIVE DropTrailing(_)
DropTrailing(str) ==
    IF Len(str) > 0 /\ IsWhiteSpace(str[Len(str)])
        THEN DropTrailing(SubSeq(str, 1, Len(str) - 1))
    ELSE str

\* the text without its leading and trailing white space
Trimmed(str) == DropTrailing(DropLeading(str))

\* the text with every unpaired surrogate replaced by U+FFFD
ToWellFormed(str) ==
    [i \in 1..Len(str) |->
        IF IsHighSurrogate(str[i]) /\ ~(i < Len(str) /\ IsLowSurrogate(str[i + 1]))
            THEN REPLACEMENT
        ELSE IF IsLowSurrogate(str[i]) /\ ~(i > 1 /\ IsHighSurrogate(str[i - 1]))
            THEN REPLACEMENT
        ELSE str[i]]

\* a request body with no text, or with white space only
IsBlankBody(input) ==
    input = None \/ \A i \in 1..Len(input[1]) : IsWhiteSpace(input[1][i])

IsLowerHex(str) == \A i \in 1..Len(str) : str[i] \in (48..57) \cup (97..102)

\* <32 hex characters> ':' <hex of a whole number of cipher blocks>
IsWireFormat(str) ==
    LET at == {i \in 1..Len(str) : str[i] = COLON}
    IN  /\ at = {2 * IV_LENGTH + 1}
        /\ IsLowerHex(SubSeq(str, 1, 2 * IV_LENGTH))
        /\ IsLowerHex(SubSeq(str, 2 * IV_LENGTH + 2, Len(str)))
        /\ Len(str) > 2 * IV_LENGTH + 1
        /\ (Len(str) - (2 * IV_LENGTH + 1)) % (2 * IV_LENGTH) = 0

DirectMessages == {m \in messages : m.messageType = "direct"}

\* the stored direct messages between a and b, in either direction
Between(a, b) == {m \in DirectMessages : {m.userId, m.recipientId} = {a, b}}

\* the stored direct messages from a to b that b has not read
UnreadFromTo(a, b) ==
    {m \in DirectMessages :
        /\ m.userId = a
        /\ m.recipientId = b
        /\ \A i \in 1..Len(m.readBy) : m.readBy[i] # b}

\* the users a has a stored direct message with
Counterparts(a) ==
    {m.recipientId : m \in {x \in DirectMessages : x.userId = a}}
        \cup {m.userId : m \in {x \in DirectMessages : x.recipientId = a}}

ConversationList == resp.op = "conversations" /\ resp.status = 200

CodecDone == codec.pc \in {"encodeFailed", "decoded", "decodeFailed"}

(***************************************************************************)
(* C1                                                                      *)
(***************************************************************************)
\* C1 as stated: for every plaintext string P, under every valid key and every IV,
\* decryptMessage(encryptMessage(P)) succeeds and returns exactly P.
C1_RoundTripEveryString ==
    (CodecDone /\ KeyResolvedValid) =>
        (codec.pc = "decoded" /\ codec.out = codec.plain)

\* C1 as amended: under every valid key and every IV the round trip succeeds and
\* returns P with each unpaired surrogate replaced by U+FFFD; so it returns exactly
\* P for every P that has no unpaired surrogate.
C1_RoundTripWellFormed ==
    (CodecDone /\ KeyResolvedValid) =>
        /\ codec.pc = "decoded"
        /\ codec.out = ToWellFormed(codec.plain)
        /\ IsWellFormed(codec.plain) => codec.out = codec.plain

\* C1 witness: a surrogate pair has gone through the codec under a configured key
C1_Witness ==
    /\ codec.pc = "decoded"
    /\ envKey = ToHex(KeyB)
    /\ codec.plain = <<55357, 56832>>
    /\ codec.out = codec.plain

(***************************************************************************)
(* C2                                                                      *)
(***************************************************************************)
\* C2: in every conversation list returned to user B, the unreadCount of each
\* counterpart A is the number of stored direct messages from A to B whose readBy
\* does not contain B (3 after three unread sends, 0 once B has marked them read).
C2_UnreadCount ==
    ConversationList =>
        \A k \in 1..Len(resp.list) :
            resp.list[k].unreadCount =
                Cardinality(UnreadFromTo(resp.list[k].user, resp.user))

\* C2 witness: user 2 is told of 2 unread messages from user 1 and of none from
\* user 3, whose message it has marked read
C2_Witness ==
    /\ ConversationList
    /\ resp.user = 2
    /\ \E j, k \in 1..Len(resp.list) :
          /\ resp.list[j].user = 1
          /\ resp.list[j].unreadCount = 2
          /\ resp.list[k].user = 3
          /\ resp.list[k].unreadCount = 0
    /\ \E m \in Between(3, 2) :
          m.userId = 3 /\ \E i \in 1..Len(m.readBy) : m.readBy[i] = 2

(***************************************************************************)
(* C3                                                                      *)
(***************************************************************************)
\* C3: a delete-one request for a stored direct message m succeeds and removes m
\* (and nothing else) when the requester is m's sender; from any other requester it
\* is rejected with 404 and the store, m included, is unchanged.
C3_DeleteAuthorization ==
    [][resp'.op = "delete" =>
          \A m \in DirectMessages :
              m._id = resp'.arg =>
                  IF m.userId = resp'.user
                      THEN resp'.status = 200 /\ messages' = messages \ {m}
                  ELSE resp'.status = 404 /\ messages' = messages]_vars

\* C3 witness: the recipient asked to delete a message, was refused, and the
\* message is still stored
C3_Witness ==
    /\ resp.op = "delete"
    /\ resp.status = 404
    /\ \E m \in DirectMessages : m._id = resp.arg /\ m.recipientId = resp.user

(***************************************************************************)
(* C4                                                                      *)
(***************************************************************************)
\* what a stored text decodes to under the key it was sent under
DecodedAtRest(m) == DecryptSteps(submitted[m._id].key, m.text)

\* C4 as stated: the text of every stored direct message is a wire-format string
\* that decodes to the trimmed submitted text and is not the plaintext.
C4_CiphertextDecodesToSubmitted ==
    \A m \in DirectMessages :
        /\ IsWireFormat(m.text)
        /\ DecodedAtRest(m).ok
        /\ DecodedAtRest(m).text = Trimmed(submitted[m._id].text)
        /\ m.text # Trimmed(submitted[m._id].text)

\* C4 as amended: the text of every stored direct message is a wire-format string,
\* is not the plaintext, and decodes to the trimmed submitted text with each
\* unpaired surrogate replaced by U+FFFD: to the trimmed submitted text itself
\* whenever that has no unpaired surrogate.
C4_CiphertextAtRest ==
    \A m \in DirectMessages :
        /\ IsWireFormat(m.text)
        /\ DecodedAtRest(m).ok
        /\ DecodedAtRest(m).text = ToWellFormed(Trimmed(submitted[m._id].text))
        /\ IsWellFormed(Trimmed(submitted[m._id].text)) =>
               DecodedAtRest(m).text = Trimmed(submitted[m._id].text)
        /\ m.text # Trimmed(submitted[m._id].text)

\* C4 witness: ' a ' is stored as ciphertext of 'a' under a configured key, beside
\* a message stored under the default key
C4_Witness ==
    \E m, n \in DirectMessages :
        /\ submitted[m._id].text = <<32, 97, 32>>
        /\ submitted[m._id].key = KeyA
        /\ DecodedAtRest(m).text = <<97>>
        /\ submitted[n._id].key # KeyA

(***************************************************************************)
(* C5                                                                      *)
(***************************************************************************)
\* C5: for every counterpart B in user A's conversation list, lastMessage is a
\* stored direct message between A and B of the greatest timestamp, and fromMe
\* says whether A sent it.
C5_LastMessage ==
    ConversationList =>
        \A k \in 1..Len(resp.list) :
            \E m \in Between(resp.user, resp.list[k].user) :
                /\ \A o \in Between(resp.user, resp.list[k].user) :
                       o.timestamp <= m.timestamp
                /\ resp.list[k].lastMessage.timestamp = m.timestamp
                /\ resp.list[k].lastMessage.text = m.text
                /\ resp.list[k].lastMessage.fromMe = (m.userId = resp.user)

\* C5 witness: the requester answered a counterpart's message, and its own later
\* message is the lastMessage
C5_Witness ==
    /\ ConversationList
    /\ \E k \in 1..Len(resp.list) :
          /\ resp.list[k].lastMessage.fromMe
          /\ \E o \in Between(resp.user, resp.list[k].user) :
                /\ o.userId # resp.user
                /\ o.timestamp < resp.list[k].lastMessage.timestamp

(***************************************************************************)
(* C6                                                                      *)
(***************************************************************************)
\* C6: a conversation list holds exactly one summary for each user the requester
\* has a stored direct message with and nothing else, newest last message first;
\* a requester with no direct message gets a successful, empty list.
C6_ListShape ==
    resp.op = "conversations" =>
        /\ resp.status = 200 =>
              /\ {resp.list[k].user : k \in 1..Len(resp.list)} = Counterparts(resp.user)
              /\ \A j, k \in 1..Len(resp.list) :
                    /\ j # k => resp.list[j].user # resp.list[k].user
                    /\ j < k => resp.list[j].lastMessage.timestamp
                                    >= resp.list[k].lastMessage.timestamp
        /\ Counterparts(resp.user) = {} => (resp.status = 200 /\ resp.list = <<>>)

\* C6 witness: three stored messages with two counterparts give two summaries
C6_Witness ==
    /\ ConversationList
    /\ Len(resp.list) = 2
    /\ resp.list[1].lastMessage.timestamp > resp.list[2].lastMessage.timestamp
    /\ Cardinality(Between(resp.user, resp.list[2].user)) = 2

(***************************************************************************)
(* C7                                                                      *)
(***************************************************************************)
\* C7: a conversation-list request completes successfully also when one of the
\* requester's direct messages references a user that is no longer stored.
C7_DeletedCounterpartSucceeds ==
    (/\ resp.op = "conversations"
     /\ \E m \in DirectMessages :
           /\ resp.user \in {m.userId, m.recipientId}
           /\ (m.userId \notin users \/ m.recipientId \notin users))
        => resp.status = 200

(***************************************************************************)
(* C8                                                                      *)
(***************************************************************************)
\* C8: a thread fetch with a stored user succeeds and returns every message of the
\* thread: one that the current key cannot decode with the placeholder text, every
\* other one with its decoded text.
C8_DecodeIsolation ==
    (resp.op = "thread" /\ resp.arg \in users) =>
        /\ resp.status = 200
        /\ {resp.list[k]._id : k \in 1..Len(resp.list)}
               = {m._id : m \in Between(resp.user, resp.arg)}
        /\ Len(resp.list) = Cardinality(Between(resp.user, resp.arg))
        /\ \A k \in 1..Len(resp.list) :
              resp.list[k].text =
                  IF KeyResolvedValid /\ ENCRYPTION_KEY[1] = submitted[resp.list[k]._id].key
                      THEN ToWellFormed(Trimmed(submitted[resp.list[k]._id].text))
                  ELSE DecryptionFailedText

\* C8 witness: a thread of two messages, one returned as the placeholder and the
\* other decoded
C8_Witness ==
    /\ resp.op = "thread"
    /\ resp.status = 200
    /\ \E j, k \in 1..Len(resp.list) :
          /\ resp.list[j].text = DecryptionFailedText
          /\ resp.list[k].text = <<97>>

(***************************************************************************)
(* C9                                                                      *)
(***************************************************************************)
\* C9: a send with missing, empty or white-space text is answered 400, a send to a
\* recipient id that matches no user is answered 404, and neither changes the
\* stored messages.
C9_RejectedSendPersistsNothing ==
    [][resp'.op = "send" =>
          /\ IsBlankBody(resp'.input) => (resp'.status = 400 /\ messages' = messages)
          /\ (~IsBlankBody(resp'.input) /\ resp'.arg \notin users) =>
                 (resp'.status = 404 /\ messages' = messages)]_vars

(***************************************************************************)
(* C10                                                                     *)
(***************************************************************************)
\* C10 as stated: the text of a 201 response is the text the client submitted.
C10_EchoIsSubmittedText ==
    (resp.op = "send" /\ resp.status = 201) => resp.text = resp.input[1]

\* C10 as amended: the text of a 201 response is the submitted text without its
\* leading and trailing white space (it is taken from the request, not decrypted
\* from the stored ciphertext).
C10_EchoIsTrimmedInput ==
    (resp.op = "send" /\ resp.status = 201) => resp.text = Trimmed(resp.input[1])

\* C10 witness: a text with a lone surrogate was echoed as submitted, although what
\* is stored decodes to something else
C10_Witness ==
    /\ resp.op = "send"
    /\ resp.status = 201
    /\ resp.text = <<98, 55357>>
    /\ \E m \in DirectMessages : m._id = resp.id /\ DecodedAtRest(m).text # resp.text

(***************************************************************************)
(* C11                                                                     *)
(***************************************************************************)
\* the direct messages of a store from a to b that b has not read
UnreadIn(store, a, b) ==
    {m \in store :
        /\ m.messageType = "direct"
        /\ m.userId = a
        /\ m.recipientId = b
        /\ \A i \in 1..Len(m.readBy) : m.readBy[i] # b}

\* the number of times x stands in arr
Occurrences(arr, x) == Cardinality({i \in 1..Len(arr) : arr[i] = x})

\* C11: a mark-read of A's thread by B adds B to readBy of exactly the messages
\* from A to B that lacked it, once, and reports their number; it leaves no such
\* message behind, and where there is none (as for a second call in a row) it
\* changes nothing and reports markedCount 0.
C11_MarkReadIdempotent ==
    [][(resp'.op = "read" /\ resp'.status = 200) =>
          /\ messages' =
                 {IF m \in UnreadIn(messages, resp'.arg, resp'.user)
                      THEN [m EXCEPT !.readBy = Append(@, resp'.user)]
                  ELSE m : m \in messages}
          /\ resp'.count = Cardinality(UnreadIn(messages, resp'.arg, resp'.user))
          /\ UnreadIn(messages', resp'.arg, resp'.user) = {}
          /\ \A m \in messages' : Occurrences(m.readBy, resp'.user) <= 1
          /\ UnreadIn(messages, resp'.arg, resp'.user) = {} =>
                 (messages' = messages /\ resp'.count = 0)]_vars

\* C11 witness: a mark-read that found nothing to mark, of a thread whose messages
\* an earlier mark-read had marked
C11_Witness ==
    /\ resp.op = "read"
    /\ resp.status = 200
    /\ resp.count = 0
    /\ \E m \in DirectMessages :
          /\ m.userId = resp.arg
          /\ m.recipientId = resp.user
          /\ Occurrences(m.readBy, resp.user) = 1

(***************************************************************************)
(* C12                                                                     *)
(***************************************************************************)
\* C12: a clear request by A naming B removes every stored direct message between
\* A and B, in both directions, and leaves every other stored message as it was.
C12_ClearScope ==
    [][resp'.op = "clear" => messages' = messages \ Between(resp'.user, resp'.arg)]_vars

\* C12 witness: a clear removed two messages; a message of the requester with
\* another counterpart and the team message are still stored
C12_Witness ==
    /\ resp.op = "clear"
    /\ resp.status = 200
    /\ resp.count = 2
    /\ Between(resp.user, resp.arg) = {}
    /\ \E m \in DirectMessages : resp.user \in {m.userId, m.recipientId}
    /\ TeamMessage \in messages

(***************************************************************************)
(* C13                                                                     *)
(***************************************************************************)
\* C13: a DELETE request whose path is clear/<userId> is answered by the bulk-clear
\* handler for that user id: it removes the messages between the requester and
\* that user and no other, so neither 'clear' nor the user id is taken as the id
\* of a message to delete.
C13_RoutePrecedence ==
    [][(/\ request'.method = "DELETE"
        /\ Len(request'.path) = 2
        /\ request'.path[1] = Word("clear")) =>
          /\ resp'.op = "clear"
          /\ resp'.user = request'.user
          /\ resp'.arg = request'.path[2].id
          /\ messages' = messages \ Between(request'.user, request'.path[2].id)]_vars

\* C13 witness: user 1 requested DELETE clear/2 and was answered by the bulk clear,
\* while its own message of id 2, written to user 3, is still stored
C13_Witness ==
    /\ request = [method |-> "DELETE", user |-> 1, path |-> clearDirectMessages(2)]
    /\ resp.op = "clear"
    /\ resp.count >= 1
    /\ \E m \in DirectMessages : m._id = 2 /\ m.userId = 1 /\ m.recipientId = 3

ConfiguredKeyInvalid == envKey # <<>> /\ Len(FromHex(envKey)) # 32

\* C15: while the configured key decodes to another length than 32 bytes, every
\* send that gets to encode is answered 500 and none is answered 201, every
\* message of a fetched thread comes back as the placeholder, and no stored
\* message was encrypted under a key of another length than 32 bytes.
C15_KeyLengthGate ==
    /\ \A m \in DirectMessages : Len(submitted[m._id].key) = 32
    /\ ConfiguredKeyInvalid =>
          /\ resp.op = "send" =>
                /\ resp.status # 201
                /\ (~IsBlankBody(resp.input) /\ resp.arg \in users) => resp.status = 500
          /\ (resp.op = "thread" /\ resp.status = 200) =>
                \A k \in 1..Len(resp.list) : resp.list[k].text = DecryptionFailedText

\* C15 witness: under a configured key of 2 bytes a thread of two messages was
\* fetched, so decode was called twice, and both came back as the placeholder
C15_Witness ==
    /\ ConfiguredKeyInvalid
    /\ resp.op = "thread"
    /\ resp.status = 200
    /\ Len(resp.list) = 2
    /\ resp.list[1].text = DecryptionFailedText
    /\ resp.list[2].text = DecryptionFailedText

(***************************************************************************)
(* C16                                                                     *)
(***************************************************************************)
\* C16: the memoized key is in every reachable state unset or a value of 32 bytes
\* (so that every call of getEncryptionKey that returns, also one after a call that
\* failed the length check, returns a key of 32 bytes).
C16_MemoizedKeyValid ==
    ENCRYPTION_KEY = None \/ Len(ENCRYPTION_KEY[1]) = 32

(***************************************************************************)
(* C17                                                                     *)
(***************************************************************************)
ColonCount(str) == Cardinality({i \in 1..Len(str) : str[i] = COLON})

StoredDone == codec.pc \in {"storedDecoded", "storedFailed"}

\* C17: decode of a string with no colon, or with two or more, returns no
\* plaintext and fails with the format error, which tells it from a failure to
\* decrypt or decompress.
C17_FormatErrorThrown ==
    (StoredDone /\ ColonCount(codec.wire) # 1 /\ KeyResolvedValid) =>
        /\ codec.pc = "storedFailed"
        /\ codec.out = <<>>
        /\ codec.error = "Invalid encrypted message format"

(***************************************************************************)
(* C18                                                                     *)
(***************************************************************************)
\* the answer of a list request during which no send and no mark-read was handled
CleanList == ConversationList /\ ~listing.active /\ ~listing.raced

\* C18: a conversation list answered by a request that started after the last send
\* and the last mark-read were done has an entry for every counterpart of the
\* requester, and the unread count of each entry is the number of stored messages
\* from that counterpart the requester has not read, whatever raced before.
C18_ListExactAfterWrites ==
    CleanList =>
        /\ {resp.list[k].user : k \in 1..Len(resp.list)} = Counterparts(resp.user)
        /\ \A k \in 1..Len(resp.list) :
              resp.list[k].unreadCount =
                  Cardinality(UnreadFromTo(resp.list[k].user, resp.user))

\* C18 witness: an earlier list request raced with a write and answered a count the
\* store no longer had; this one, started after the writes, counts an unread message
C18_Witness ==
    /\ CleanList
    /\ listing.stale
    /\ \E k \in 1..Len(resp.list) : resp.list[k].unreadCount > 0

(***************************************************************************)
(* C19                                                                     *)
(***************************************************************************)
\* C19: in a process with no configured key, the insecure-default warning has been
\* written once if the key has been resolved and not at all before that, whatever
\* the number of messages encoded and decoded since.
C19_WarningOnce ==
    envKey = <<>> => warnings = (IF ENCRYPTION_KEY = None THEN 0 ELSE 1)

\* C19 witness: with no configured key two messages were encoded and a thread of
\* two was decoded, and the warning was written once
C19_Witness ==
    /\ envKey = <<>>
    /\ warnings = 1
    /\ sends >= 2
    /\ resp.op = "thread"
    /\ resp.status = 200
    /\ Len(resp.list) >= 2

(***************************************************************************)
(* C20                                                                     *)
(***************************************************************************)
\* C20: a step that answers a thread fetch, with or without entries that failed to
\* decode, or a conversation-list request leaves the stored messages as they were
\* (text, readBy, timestamp, sender and recipient of every message).
C20_ReadPathReadOnly ==
    [][resp'.op \in {"thread", "conversations"} => messages' = messages]_vars

\* C20 witness: a thread was answered with the placeholder for a message that is
\* still stored with its ciphertext
C20_Witness ==
    /\ resp.op = "thread"
    /\ resp.status = 200
    /\ \E k \in 1..Len(resp.list) :
          /\ resp.list[k].text = DecryptionFailedText
          /\ \E m \in DirectMessages :
                /\ m._id = resp.list[k]._id
                /\ IsWireFormat(m.text)
                /\ m.readBy = resp.list[k].readBy
                /\ m.timestamp = resp.list[k].timestamp

(***************************************************************************)
(* C21                                                                     *)
(***************************************************************************)
\* C21: after every step each stored direct message has its sender in readBy (so it
\* is never among the messages its sender has not read), and a message that is
\* stored before and after the step has kept every user its readBy held.
C21_ReadByGrows ==
    [][/\ \A m \in messages' :
             IsDirect(m) => \E i \in 1..Len(m.readBy) : m.readBy[i] = m.userId
       /\ \A m \in messages : \A n \in messages' :
             (IsDirect(m) /\ n._id = m._id) =>
                 \A i \in 1..Len(m.readBy) :
                     \E j \in 1..Len(n.readBy) : n.readBy[j] = m.readBy[i]]_vars

\* C21 witness: the recipient of a message has marked it read and its sender is
\* still the first entry of readBy
C21_Witness ==
    \E m \in DirectMessages : m.readBy = <<m.userId, m.recipientId>>

(***************************************************************************)
(* C22                                                                     *)
(***************************************************************************)
\* the ids of the stored messages whose readBy gains the signed-in user in the step
GainMe == {m._id : m \in {x \in messages :
              /\ \A i \in 1..Len(x.readBy) : x.readBy[i] # Me
              /\ \E y \in messages' :
                    /\ y._id = x._id
                    /\ \E j \in 1..Len(y.readBy) : y.readBy[j] = Me}}

\* C22: when the server handles the mark-read request of a load cycle, every
\* message whose readBy gains the signed-in user was in the thread response the
\* same cycle had fetched.
C22_MarksOnlyFetched ==
    [][\A mk \in client.marks \ client'.marks : GainMe \subseteq mk.fetched]_vars

(***************************************************************************)
(* C23                                                                     *)
(***************************************************************************)
\* C23: a thread response that arrives for a user who is not the selected user
\* leaves the list shown as it is.
C23_OnlyCurrentThreadApplied ==
    [][\A r \in client.inflight \ client'.inflight :
          (r.kind = "thread" /\ r.for # client.selectedUser) =>
              client'.messages = client.messages]_vars

(***************************************************************************)
(* C24                                                                     *)
(***************************************************************************)
\* C24: no two entries of the list shown have the same message id.
C24_NoDuplicateShown ==
    \A i, j \in 1..Len(client.messages) :
        client.messages[i] = client.messages[j] => i = j

(***************************************************************************)
(* C25                                                                     *)
(***************************************************************************)
\* C25: once 'Chat cleared successfully' has been shown, the response of a poll
\* made after it puts no message in the list shown that was stored when the chat
\* was cleared.
C25_ClearedStaysCleared ==
    [][\A r \in client.inflight \ client'.inflight :
          (r.kind = "thread" /\ r.afterClear /\ client.alerted) =>
              \A k \in 1..Len(client'.messages) :
                  client'.messages[k] \notin client.cleared]_vars

====
